---- MODULE Spec2Model ----
(***************************************************************************)
(* Model of the Python extension module _cpp_wrapper of mas_perception_libs *)
(* (ros/src/boost_python_module.cpp).  Every function the module exports is *)
(* one action: the action draws the arguments of one call from bounded sets *)
(* and records the call, its outcome (return value or the exception that    *)
(* reaches the caller) and the caller's own objects as the call leaves them.*)
(*                                                                         *)
(* Python numbers are doubles; a double is modelled by an integer count of  *)
(* halves (h stands for h/2), so that static_cast<int> really truncates.    *)
(***************************************************************************)
EXTENDS Integers, Sequences, FiniteSets, TLC

VARIABLES op, args, status, ret, caller

vars == <<op, args, status, ret, caller>>

---------------------------------------------------------------------------
(* Bounds of the model *)

\* longest Python tuple handed to a constructor or a wrapper
MaxTupleLen == 5
\* largest image / cloud side, in pixels
MaxSide == 3
\* largest box side handed to a wrapper
MaxBoxSide == 3
\* largest pixel offset (offsets range over -MaxOffset..MaxOffset)
MaxOffset == 1
\* longest list of boxes handed to a drawing or extraction call
MaxBoxes == 2
\* largest coordinate of a cloud point
MaxCoord == 4

---------------------------------------------------------------------------
(* Generic helpers *)

Min(a, b) == IF a <= b THEN a ELSE b
Max(a, b) == IF a >= b THEN a ELSE b

\* what a call that throws hands back
None == <<>>

---------------------------------------------------------------------------
(* Python values and their extraction *)

Num(h) == [kind |-> "num", h |-> h]
Str == [kind |-> "str", h |-> 0]

\* bp::extract<double>(obj) succeeds on a Python number only; on anything
\* else Boost.Python raises TypeError
Extractable(v) == v.kind = "num"

\* static_cast<int>(double): truncation toward zero
StaticCastInt(h) == IF h >= 0 THEN h \div 2 ELSE -((-h) \div 2)

AllExtractable(t, n) == \A i \in 1..n : Extractable(t[i])

---------------------------------------------------------------------------
(* BoundingBox2D and the Python-side BoundingBox2DWrapper *)

\* CV_RGB(r, g, b) is cv::Scalar(b, g, r, 0)
CV_RGB(r, g, b) == <<b, g, r>>

MkBox(l, col, x, y, w, h) ==
    [mLabel |-> l, mColor |-> col, mX |-> x, mY |-> y, mWidth |-> w, mHeight |-> h]

\* BoundingBox2D::getCvRect
getCvRect(b) == [x |-> b.mX, y |-> b.mY, width |-> b.mWidth, height |-> b.mHeight]

\* BoundingBox2D::updateBox
updateBox(b, r) ==
    [b EXCEPT !.mX = r.x, !.mY = r.y, !.mWidth = r.width, !.mHeight = r.height]

\* variant: a geometry tuple longer than 4 is let through
BoundingBox2DWrapperLax(pLabel, pColor, pBox) ==
    IF Len(pColor) # 3 THEN [status |-> "InvalidArgument", box |-> None]
    ELSE IF ~AllExtractable(pColor, 3) THEN [status |-> "TypeError", box |-> None]
    ELSE IF Len(pBox) < 4 THEN [status |-> "InvalidArgument", box |-> None]
    ELSE IF ~AllExtractable(pBox, 4) THEN [status |-> "TypeError", box |-> None]
    ELSE [status |-> "ok",
          box |-> [mLabel |-> pLabel,
                   mColor |-> CV_RGB(StaticCastInt(pColor[1].h),
                                     StaticCastInt(pColor[2].h),
                                     StaticCastInt(pColor[3].h)),
                   mX |-> StaticCastInt(pBox[1].h),
                   mY |-> StaticCastInt(pBox[2].h),
                   mWidth |-> StaticCastInt(pBox[3].h),
                   mHeight |-> StaticCastInt(pBox[4].h)]]

\* BoundingBox2DWrapper(label, color, box)
BoundingBox2DWrapper(pLabel, pColor, pBox) ==
    IF Len(pColor) # 3 THEN [status |-> "InvalidArgument", box |-> None]
    ELSE IF ~AllExtractable(pColor, 3) THEN [status |-> "TypeError", box |-> None]
    ELSE IF Len(pBox) # 4 THEN [status |-> "InvalidArgument", box |-> None]
    ELSE IF ~AllExtractable(pBox, 4) THEN [status |-> "TypeError", box |-> None]
    ELSE [status |-> "ok",
          box |-> [mLabel |-> pLabel,
                   mColor |-> CV_RGB(StaticCastInt(pColor[1].h),
                                     StaticCastInt(pColor[2].h),
                                     StaticCastInt(pColor[3].h)),
                   mX |-> StaticCastInt(pBox[1].h),
                   mY |-> StaticCastInt(pBox[2].h),
                   mWidth |-> StaticCastInt(pBox[3].h),
                   mHeight |-> StaticCastInt(pBox[4].h)]]

---------------------------------------------------------------------------
(* Inputs of the constructor *)

Labels == {"cup", ""}

\* 255.5, 256, -1 and a non-number
ColorVals == {Num(511), Num(512), Num(-2), Str}

\* tuples of every length up to MaxTupleLen in which at most one position
\* differs from the others
ColorTuples ==
    {[i \in 1..n |-> IF i = k THEN a ELSE b] :
        n \in 0..MaxTupleLen, k \in 0..MaxTupleLen, a \in ColorVals, b \in {Num(511), Num(0)}}

\* geometry tuples with pairwise different entries, whole (step 2) or with
\* halves (step 3), one of them possibly not a number
GeomTuples ==
    {[i \in 1..n |-> IF i = k THEN Str ELSE Num(base + step * i)] :
        n \in 0..MaxTupleLen, k \in 0..MaxTupleLen, base \in {-6, 0}, step \in {2, 3}}

---------------------------------------------------------------------------
(* Image buffers: the caller's ndarray and the native cv::Mat *)

\* a pixel is its three channel values; an ndarray is its shape and its
\* data in row-major order
MkImage(h, w, s) ==
    [shape |-> <<h, w, 3>>,
     data |-> [i \in 1..(h * w) |-> <<(i - 1) \div w, (i - 1) % w, s>>]]

\* pbcvt::fromNDArrayToMat: the native grid over the array's data
fromNDArrayToMat(nd) ==
    [rows |-> nd.shape[1], cols |-> nd.shape[2],
     at |-> [p \in (0..(nd.shape[1] - 1)) \X (0..(nd.shape[2] - 1)) |->
                nd.data[p[1] * nd.shape[2] + p[2] + 1]]]

\* pbcvt::fromMatToNDArray: a caller-side array holding the grid's pixels
fromMatToNDArray(m) ==
    [shape |-> <<m.rows, m.cols, 3>>,
     data |-> [i \in 1..(m.rows * m.cols) |->
                 m.at[<<(i - 1) \div m.cols, (i - 1) % m.cols>>]]]

\* what the caller's array holds after the cv::Mat obtained from it has been
\* written to by a drawing call: the input buffer is not mutated
NDArrayAfterMatWrite(nd, written) == nd

---------------------------------------------------------------------------
(* Box fitting, cropping and drawing (bounding_box_2d) *)

\* fitBoxToImage(imageSize, box, offset): the box grown by offset on each
\* side, cut to [0,width) x [0,height); an empty result is an error
fitBoxToImage(pImageSize, pBox, pOffset) ==
    LET left == Max(pBox.x - pOffset, 0)
        top == Max(pBox.y - pOffset, 0)
        right == Min(pBox.x + pBox.width + pOffset, pImageSize.width)
        bottom == Min(pBox.y + pBox.height + pOffset, pImageSize.height)
    IN  IF right - left <= 0 \/ bottom - top <= 0
        THEN [status |-> "InvalidArgument", rect |-> None]
        ELSE [status |-> "ok",
              rect |-> [x |-> left, y |-> top,
                        width |-> right - left, height |-> bottom - top]]

\* cropImage(image, box, offset): fit the box, then copy the region out
cropImage(pImage, pBox, pOffset) ==
    LET f == fitBoxToImage([width |-> pImage.cols, height |-> pImage.rows],
                           getCvRect(pBox), pOffset)
    IN  IF f.status # "ok" THEN [status |-> f.status, mat |-> None]
        ELSE [status |-> "ok",
              mat |-> [rows |-> f.rect.height, cols |-> f.rect.width,
                       at |-> [p \in (0..(f.rect.height - 1)) \X (0..(f.rect.width - 1)) |->
                                 pImage.at[<<f.rect.y + p[1], f.rect.x + p[2]>>]]]]

\* the pixels one labelled box paints: its outline, pThickness wide, and the
\* anchor of its label just above the top-left corner
Painted(b, pThickness, p) ==
    LET r == p[1]
        c == p[2]
        inside == /\ b.mX <= c /\ c < b.mX + b.mWidth
                  /\ b.mY <= r /\ r < b.mY + b.mHeight
        inner == /\ b.mX + pThickness <= c /\ c < b.mX + b.mWidth - pThickness
                 /\ b.mY + pThickness <= r /\ r < b.mY + b.mHeight - pThickness
    IN  \/ inside /\ ~inner
        \/ b.mLabel # "" /\ r = b.mY - 1 /\ c = b.mX

RECURSIVE drawLabeledBoxes(_, _, _, _)
\* drawLabeledBoxes(image, boxes, thickness, fontScale): paints the boxes
\* into image in list order, each in its own colour
drawLabeledBoxes(pImage, pBoxes, pThickness, pFontScale) ==
    IF pBoxes = <<>> THEN pImage
    ELSE LET b == Head(pBoxes)
             drawn == [pImage EXCEPT !.at =
                        [p \in DOMAIN pImage.at |->
                            IF Painted(b, pThickness, p) THEN b.mColor
                            ELSE pImage.at[p]]]
         IN  drawLabeledBoxes(drawn, Tail(pBoxes), pThickness, pFontScale)

---------------------------------------------------------------------------
(* The wrappers of the image functions *)

\* variant: the drawing is done in the caller's own array
drawLabeledBoxesWrapperInPlace(pNdarrayImage, pBoxList, pThickness, pFontScale) ==
    LET image == fromNDArrayToMat(pNdarrayImage)
        boundingBoxes == [i \in 1..Len(pBoxList) |-> pBoxList[i]]
        drawn == drawLabeledBoxes(image, boundingBoxes, pThickness, pFontScale)
    IN  [status |-> "ok",
         ret |-> fromMatToNDArray(drawn),
         image |-> fromMatToNDArray(drawn),
         boxes |-> pBoxList]

\* drawLabeledBoxesWrapper(ndarray, boxList, thickness, fontScale)
drawLabeledBoxesWrapper(pNdarrayImage, pBoxList, pThickness, pFontScale) ==
    LET image == fromNDArrayToMat(pNdarrayImage)
        boundingBoxes == [i \in 1..Len(pBoxList) |-> pBoxList[i]]
        drawn == drawLabeledBoxes(image, boundingBoxes, pThickness, pFontScale)
    IN  [status |-> "ok",
         ret |-> fromMatToNDArray(drawn),
         image |-> NDArrayAfterMatWrite(pNdarrayImage, drawn),
         boxes |-> pBoxList]

\* variant: the adjusted rectangle is never written back into the box
fitBoxToImageWrapperNoUpdate(pImageSizeTuple, pBox, pOffset) ==
    IF Len(pImageSizeTuple) # 2
    THEN [status |-> "InvalidArgument", ret |-> None, box |-> pBox]
    ELSE IF ~AllExtractable(pImageSizeTuple, 2)
    THEN [status |-> "TypeError", ret |-> None, box |-> pBox]
    ELSE LET width == StaticCastInt(pImageSizeTuple[1].h)
             height == StaticCastInt(pImageSizeTuple[2].h)
             imageSize == [width |-> width, height |-> height]
             adjusted == fitBoxToImage(imageSize, getCvRect(pBox), pOffset)
         IN  IF adjusted.status # "ok"
             THEN [status |-> adjusted.status, ret |-> None, box |-> pBox]
             ELSE [status |-> "ok", ret |-> pBox, box |-> pBox]

\* variant: the size tuple read as (height, width)
fitBoxToImageWrapperSwap(pImageSizeTuple, pBox, pOffset) ==
    IF Len(pImageSizeTuple) # 2
    THEN [status |-> "InvalidArgument", ret |-> None, box |-> pBox]
    ELSE IF ~AllExtractable(pImageSizeTuple, 2)
    THEN [status |-> "TypeError", ret |-> None, box |-> pBox]
    ELSE LET width == StaticCastInt(pImageSizeTuple[2].h)
             height == StaticCastInt(pImageSizeTuple[1].h)
             imageSize == [width |-> width, height |-> height]
             adjusted == fitBoxToImage(imageSize, getCvRect(pBox), pOffset)
         IN  IF adjusted.status # "ok"
             THEN [status |-> adjusted.status, ret |-> None, box |-> pBox]
             ELSE [status |-> "ok", ret |-> updateBox(pBox, adjusted.rect), box |-> pBox]

\* variant: the height read from the first element of the size tuple too
fitBoxToImageWrapperSquare(pImageSizeTuple, pBox, pOffset) ==
    IF Len(pImageSizeTuple) # 2
    THEN [status |-> "InvalidArgument", ret |-> None, box |-> pBox]
    ELSE IF ~AllExtractable(pImageSizeTuple, 2)
    THEN [status |-> "TypeError", ret |-> None, box |-> pBox]
    ELSE LET width == StaticCastInt(pImageSizeTuple[1].h)
             height == StaticCastInt(pImageSizeTuple[1].h)
             imageSize == [width |-> width, height |-> height]
             adjusted == fitBoxToImage(imageSize, getCvRect(pBox), pOffset)
         IN  IF adjusted.status # "ok"
             THEN [status |-> adjusted.status, ret |-> None, box |-> pBox]
             ELSE [status |-> "ok", ret |-> updateBox(pBox, adjusted.rect), box |-> pBox]

\* fitBoxToImageWrapper(imageSizeTuple, box, offset); pBox is passed by value
fitBoxToImageWrapper(pImageSizeTuple, pBox, pOffset) ==
    IF Len(pImageSizeTuple) # 2
    THEN [status |-> "InvalidArgument", ret |-> None, box |-> pBox]
    ELSE IF ~AllExtractable(pImageSizeTuple, 2)
    THEN [status |-> "TypeError", ret |-> None, box |-> pBox]
    ELSE LET width == StaticCastInt(pImageSizeTuple[1].h)
             height == StaticCastInt(pImageSizeTuple[2].h)
             imageSize == [width |-> width, height |-> height]
             adjusted == fitBoxToImage(imageSize, getCvRect(pBox), pOffset)
         IN  IF adjusted.status # "ok"
             THEN [status |-> adjusted.status, ret |-> None, box |-> pBox]
             ELSE [status |-> "ok", ret |-> updateBox(pBox, adjusted.rect), box |-> pBox]

\* variant: the uncropped image is what gets converted and returned
cropImageWrapperWhole(pNdarrayImage, pBox, pOffset) ==
    LET image == fromNDArrayToMat(pNdarrayImage)
        cropped == cropImage(image, pBox, pOffset)
    IN  IF cropped.status # "ok"
        THEN [status |-> cropped.status, ret |-> None,
              image |-> pNdarrayImage, box |-> pBox]
        ELSE [status |-> "ok", ret |-> fromMatToNDArray(image),
              image |-> pNdarrayImage, box |-> pBox]

\* cropImageWrapper(ndarray, box, offset)
cropImageWrapper(pNdarrayImage, pBox, pOffset) ==
    LET image == fromNDArrayToMat(pNdarrayImage)
        cropped == cropImage(image, pBox, pOffset)
    IN  IF cropped.status # "ok"
        THEN [status |-> cropped.status, ret |-> None,
              image |-> pNdarrayImage, box |-> pBox]
        ELSE [status |-> "ok", ret |-> fromMatToNDArray(cropped.mat),
              image |-> pNdarrayImage, box |-> pBox]

---------------------------------------------------------------------------
(* Inputs of the image functions *)

Images == {MkImage(h, w, 0) : h \in 1..MaxSide, w \in 1..MaxSide}

Boxes ==
    {MkBox("cup", <<0, 0, 255>>, x, y, w, h) :
        x \in -1..MaxSide, y \in -1..MaxSide, w \in 0..MaxBoxSide, h \in 0..MaxBoxSide}

Offsets == (-MaxOffset)..MaxOffset

\* sides 0, 1, ..., MaxSide and 2.5
SideVals == {Num(2 * k) : k \in 0..MaxSide} \cup {Num(5)}

ImageSizeTuples ==
    (SideVals \X SideVals)
        \cup {<<Num(4)>>, <<Num(4), Num(4), Num(4)>>, <<Num(4), Str>>, <<>>}

\* the 100x100 image of the end-to-end example, its box, and the box fitted
ExampleImage == MkImage(100, 100, 0)
ExampleSize == <<Num(200), Num(200)>>
ExampleBox == MkBox("cup", <<0, 0, 255>>, 90, 90, 20, 20)
ExampleFitted == MkBox("cup", <<0, 0, 255>>, 90, 90, 10, 10)

FitInputs ==
    (ImageSizeTuples \X Boxes \X Offsets) \cup {<<ExampleSize, ExampleBox, 0>>}

CropInputs ==
    (Images \X Boxes \X Offsets)
        \cup {<<ExampleImage, ExampleBox, 0>>, <<ExampleImage, ExampleFitted, 0>>}

\* boxes to draw: different colours, inside, across and outside the image
DrawBoxes ==
    {MkBox("cup", <<0, 0, 255>>, 0, 0, 2, 2), MkBox("", <<0, 255, 0>>, 1, 1, 3, 3),
     MkBox("pan", <<255, 0, 0>>, 1, 2, 1, 1), MkBox("cup", <<9, 9, 9>>, 5, 5, 1, 1)}

RECURSIVE SeqsUpTo(_, _)
SeqsUpTo(S, n) ==
    IF n = 0 THEN {<<>>}
    ELSE LET shorter == SeqsUpTo(S, n - 1)
         IN  shorter \cup {Append(q, e) : q \in shorter, e \in S}

Thicknesses == {1, 2}

---------------------------------------------------------------------------
(* Point clouds (sensor_msgs/PointCloud2) and their serialized form *)

\* the coordinate value standing for NaN
NaN == -(MaxCoord + 1)
NaNPoint == <<NaN, NaN, NaN>>
IsNaN(pt) == pt[1] = NaN \/ pt[2] = NaN \/ pt[3] = NaN

\* a cloud of h rows and w columns; point i (row-major) is invalid when
\* i = nanAt; fields names the channels the message carries
MkCloud(h, w, nanAt, fields) ==
    [height |-> h, width |-> w, fields |-> fields,
     points |-> [i \in 1..(h * w) |->
                   IF i = nanAt THEN NaNPoint
                   ELSE <<(i - 1) % w, (i - 1) \div w, (i * i) % (MaxCoord + 1)>>],
     rgb |-> [i \in 1..(h * w) |-> <<i, 2 * i, 3 * i>>]]

\* to_python(sensor_msgs::PointCloud2): the serialized message
to_python_Cloud(c) == <<"PointCloud2", c.height, c.width, c.fields, c.points, c.rgb>>

\* from_python<sensor_msgs::PointCloud2>(serial)
from_python_Cloud(pSerial) ==
    [height |-> pSerial[2], width |-> pSerial[3], fields |-> pSerial[4],
     points |-> pSerial[5], rgb |-> pSerial[6]]

\* to_python(sensor_msgs::Image)
to_python_Image(m) == <<"Image", m.height, m.width, m.encoding, m.data>>

\* from_python<sensor_msgs::Image>(serial)
from_python_Image(pSerial) ==
    [height |-> pSerial[2], width |-> pSerial[3], encoding |-> pSerial[4],
     data |-> pSerial[5]]

---------------------------------------------------------------------------
(* Organized-cloud functions (point_cloud_utils), PCL and pcl_ros *)

\* pcl::toROSMsg(cloud, image): the rgb channel as a bgr8 image
toROSMsg(pCloud) ==
    IF "rgb" \notin pCloud.fields
    THEN [status |-> "RuntimeError", msg |-> None]
    ELSE [status |-> "ok",
          msg |-> [height |-> pCloud.height, width |-> pCloud.width,
                   encoding |-> "bgr8",
                   data |-> [i \in 1..(pCloud.height * pCloud.width) |->
                               <<pCloud.rgb[i][3], pCloud.rgb[i][2], pCloud.rgb[i][1]>>]]]

\* cloudMsgToCvImage(cloudMsg): the colour channel when the cloud has one,
\* else a grayscale computed from the range
cloudMsgToCvImage(pCloudMsg) ==
    IF pCloudMsg.height <= 1 THEN [status |-> "InvalidArgument", mat |-> None]
    ELSE IF "rgb" \notin pCloudMsg.fields /\ "xyz" \notin pCloudMsg.fields
    THEN [status |-> "InvalidArgument", mat |-> None]
    ELSE [status |-> "ok",
          mat |-> [rows |-> pCloudMsg.height, cols |-> pCloudMsg.width,
                   at |-> [p \in (0..(pCloudMsg.height - 1)) \X (0..(pCloudMsg.width - 1)) |->
                            LET i == p[1] * pCloudMsg.width + p[2] + 1 IN
                            IF "rgb" \in pCloudMsg.fields
                            THEN <<pCloudMsg.rgb[i][3], pCloudMsg.rgb[i][2], pCloudMsg.rgb[i][1]>>
                            ELSE <<pCloudMsg.points[i][3], pCloudMsg.points[i][3],
                                   pCloudMsg.points[i][3]>>]]]

\* cropOrganizedCloudMsg(cloudMsg, box, croppedCloudMsg): the sub-grid of the
\* box fitted to the cloud's grid with offset 0, rows and columns in order
cropOrganizedCloudMsg(pCloudMsg, pBox) ==
    IF pCloudMsg.height <= 1 THEN [status |-> "InvalidArgument", cloud |-> None]
    ELSE LET f == fitBoxToImage([width |-> pCloudMsg.width, height |-> pCloudMsg.height],
                                getCvRect(pBox), 0)
         IN  IF f.status # "ok" THEN [status |-> f.status, cloud |-> None]
             ELSE LET src(i) == (f.rect.y + (i - 1) \div f.rect.width) * pCloudMsg.width
                                    + f.rect.x + ((i - 1) % f.rect.width) + 1
                  IN  [status |-> "ok",
                       cloud |-> [height |-> f.rect.height, width |-> f.rect.width,
                                  fields |-> pCloudMsg.fields,
                                  points |-> [i \in 1..(f.rect.height * f.rect.width) |->
                                                pCloudMsg.points[src(i)]],
                                  rgb |-> [i \in 1..(f.rect.height * f.rect.width) |->
                                             pCloudMsg.rgb[src(i)]]]]

\* cropCloudMsgToXYZ(cloudMsg, box): the same region as a grid of (x,y,z)
cropCloudMsgToXYZ(pCloudMsg, pBox) ==
    IF pCloudMsg.height <= 1 THEN [status |-> "InvalidArgument", mat |-> None]
    ELSE LET f == fitBoxToImage([width |-> pCloudMsg.width, height |-> pCloudMsg.height],
                                getCvRect(pBox), 0)
         IN  IF f.status # "ok" THEN [status |-> f.status, mat |-> None]
             ELSE [status |-> "ok",
                   mat |-> [rows |-> f.rect.height, cols |-> f.rect.width,
                            at |-> [p \in (0..(f.rect.height - 1)) \X (0..(f.rect.width - 1)) |->
                                     pCloudMsg.points[(f.rect.y + p[1]) * pCloudMsg.width
                                                        + f.rect.x + p[2] + 1]]]]

\* pcl_ros::transformPointCloud(matrix, in, out): every valid point through
\* the 4x4 matrix, invalid points as they are
transformPointCloud(pTf, pCloud) ==
    LET row(r, pt) == pTf.at[<<r, 0>>] * pt[1] + pTf.at[<<r, 1>>] * pt[2]
                        + pTf.at[<<r, 2>>] * pt[3] + pTf.at[<<r, 3>>]
    IN  [pCloud EXCEPT !.points =
            [i \in DOMAIN pCloud.points |->
                IF IsNaN(pCloud.points[i]) THEN pCloud.points[i]
                ELSE <<row(0, pCloud.points[i]), row(1, pCloud.points[i]),
                       row(2, pCloud.points[i])>>]]

---------------------------------------------------------------------------
(* The wrappers of the cloud functions *)

\* cloudMsgToCvImageWrapper(serialCloud)
cloudMsgToCvImageWrapper(pSerialCloud) ==
    LET cloudMsg == from_python_Cloud(pSerialCloud)
        image == cloudMsgToCvImage(cloudMsg)
    IN  IF image.status # "ok" THEN [status |-> image.status, ret |-> None]
        ELSE [status |-> "ok", ret |-> fromMatToNDArray(image.mat)]

\* variant: the organized check written height < 1
cloudMsgToImageMsgWrapperLax(pSerialCloud) ==
    LET cloudMsg == from_python_Cloud(pSerialCloud)
        imageMsg == toROSMsg(cloudMsg)
    IN  IF cloudMsg.height < 1 THEN [status |-> "InvalidArgument", ret |-> None]
        ELSE IF imageMsg.status # "ok" THEN [status |-> imageMsg.status, ret |-> None]
        ELSE [status |-> "ok", ret |-> to_python_Image(imageMsg.msg)]

\* cloudMsgToImageMsgWrapper(serialCloud)
cloudMsgToImageMsgWrapper(pSerialCloud) ==
    LET cloudMsg == from_python_Cloud(pSerialCloud)
        imageMsg == toROSMsg(cloudMsg)
    IN  IF cloudMsg.height <= 1 THEN [status |-> "InvalidArgument", ret |-> None]
        ELSE IF imageMsg.status # "ok" THEN [status |-> imageMsg.status, ret |-> None]
        ELSE [status |-> "ok", ret |-> to_python_Image(imageMsg.msg)]

\* cropOrganizedCloudMsgWrapper(serialCloud, box)
cropOrganizedCloudMsgWrapper(pSerialCloud, pBox) ==
    LET cloudMsg == from_python_Cloud(pSerialCloud)
        cropped == cropOrganizedCloudMsg(cloudMsg, pBox)
    IN  IF cropped.status # "ok" THEN [status |-> cropped.status, ret |-> None, box |-> pBox]
        ELSE [status |-> "ok", ret |-> to_python_Cloud(cropped.cloud), box |-> pBox]

\* variant: the coordinates of the whole cloud are returned, whatever the box
cropCloudMsgToXYZWrapperWhole(pSerialCloud, pBox) ==
    LET cloudMsg == from_python_Cloud(pSerialCloud)
        whole == MkBox("", <<0, 0, 0>>, 0, 0, cloudMsg.width, cloudMsg.height)
        coords == cropCloudMsgToXYZ(cloudMsg, whole)
    IN  IF coords.status # "ok" THEN [status |-> coords.status, ret |-> None, box |-> pBox]
        ELSE [status |-> "ok", ret |-> fromMatToNDArray(coords.mat), box |-> pBox]

\* cropCloudMsgToXYZWrapper(serialCloud, box)
cropCloudMsgToXYZWrapper(pSerialCloud, pBox) ==
    LET cloudMsg == from_python_Cloud(pSerialCloud)
        coords == cropCloudMsgToXYZ(cloudMsg, pBox)
    IN  IF coords.status # "ok" THEN [status |-> coords.status, ret |-> None, box |-> pBox]
        ELSE [status |-> "ok", ret |-> fromMatToNDArray(coords.mat), box |-> pBox]

\* transformPointCloudWrapper(serialCloud, tfMatrix)
transformPointCloudWrapper(pSerialCloud, pTfMatrix) ==
    LET tfMatrix == fromNDArrayToMat(pTfMatrix) IN
    IF tfMatrix.rows # 4 \/ tfMatrix.cols # 4
    THEN [status |-> "RuntimeError", ret |-> None]
    ELSE LET cloudMsg == from_python_Cloud(pSerialCloud)
             transformedCloud == transformPointCloud(tfMatrix, cloudMsg)
         IN  [status |-> "ok", ret |-> to_python_Cloud(transformedCloud)]

---------------------------------------------------------------------------
(* Inputs of the cloud functions *)

\* clouds of every grid size, colour or range only, with or without an
\* invalid point, and the empty cloud; height 1 is an unorganized cloud
Clouds ==
    {MkCloud(h, w, n, f) :
        h \in 1..MaxSide, w \in 1..MaxSide, n \in 0..2, f \in {{"xyz", "rgb"}, {"xyz"}}}
        \cup {MkCloud(0, 0, 0, {"xyz"})}

\* the clouds handed to the cropping functions
CropClouds == {c \in Clouds : "rgb" \in c.fields /\ c.points = MkCloud(c.height, c.width, 2, {}).points}
                  \cup {MkCloud(1, 2, 0, {"xyz"}), MkCloud(0, 0, 0, {"xyz"})}

\* clouds a conversion to an image can also be handed: without any channel
BareClouds == {MkCloud(h, 2, 0, {}) : h \in 1..2}

\* matrices of sides 3..5: the identity pattern plus a shift t in the last
\* column of the first row
MkMatrix(r, c, t) ==
    [shape |-> <<r, c>>,
     data |-> [i \in 1..(r * c) |->
                 IF (i - 1) \div c = (i - 1) % c THEN 1
                 ELSE IF (i - 1) \div c = 0 /\ (i - 1) % c = c - 1 THEN t ELSE 0]]

Matrices == {MkMatrix(r, c, t) : r \in 3..5, c \in 3..5, t \in {0, 1}}

---------------------------------------------------------------------------
(* The legacy 3D-box path: ImageBoundingBox and its wrapper *)

\* to_python(mcr_perception_msgs::ImageList)
to_python_ImageList(l) == <<"ImageList", Len(l), l>>

\* from_python<sensor_msgs::CameraInfo>(serial)
from_python_CameraInfo(pSerial) ==
    [fx |-> pSerial[2], fy |-> pSerial[3], cx |-> pSerial[4], cy |-> pSerial[5]]

\* from_python<mcr_perception_msgs::BoundingBoxList>(serial)
from_python_BoundingBoxList(pSerial) == pSerial[3]

\* a 3D vertex through the pinhole intrinsics, as a cv::Point2f
Project(v, pCamInfo) ==
    [x |-> (pCamInfo.fx * v[1]) \div v[3] + pCamInfo.cx,
     y |-> (pCamInfo.fy * v[2]) \div v[3] + pCamInfo.cy]

SeqMin(q) == CHOOSE m \in {q[i] : i \in DOMAIN q} : \A i \in DOMAIN q : m <= q[i]
SeqMax(q) == CHOOSE m \in {q[i] : i \in DOMAIN q} : \A i \in DOMAIN q : m >= q[i]

\* the crop of one box: the pixel region enclosing its projected vertices,
\* cut to the image; empty (0 x 0) when the region misses the image
CropOfVertices(pImageMsg, pVertices) ==
    LET xs == [i \in DOMAIN pVertices |-> pVertices[i].x]
        ys == [i \in DOMAIN pVertices |-> pVertices[i].y]
        left == Max(SeqMin(xs), 0)
        top == Max(SeqMin(ys), 0)
        right == Min(SeqMax(xs) + 1, pImageMsg.width)
        bottom == Min(SeqMax(ys) + 1, pImageMsg.height)
    IN  IF right - left <= 0 \/ bottom - top <= 0
        THEN [height |-> 0, width |-> 0, encoding |-> pImageMsg.encoding, data |-> <<>>]
        ELSE [height |-> bottom - top, width |-> right - left,
              encoding |-> pImageMsg.encoding,
              data |-> [i \in 1..((bottom - top) * (right - left)) |->
                          pImageMsg.data[(top + (i - 1) \div (right - left)) * pImageMsg.width
                                           + left + ((i - 1) % (right - left)) + 1]]]

\* ImageBoundingBox(imageMsg, camInfo, boundingBoxList): per box, in list
\* order, the projected vertices and the crop of the enclosing region
ImageBoundingBox(pImageMsg, pCamInfo, pBoundingBoxList) ==
    LET verts == [k \in 1..Len(pBoundingBoxList) |->
                    [j \in 1..Len(pBoundingBoxList[k]) |->
                        Project(pBoundingBoxList[k][j], pCamInfo)]]
    IN  [cropped_image_list |-> [k \in 1..Len(pBoundingBoxList) |->
                                    CropOfVertices(pImageMsg, verts[k])],
         box_vertices_vector |-> verts]

RECURSIVE AppendAll(_, _)
\* the loops filling a bp::list by append, front to back
AppendAll(pList, pItems) ==
    IF pItems = <<>> THEN pList
    ELSE AppendAll(Append(pList, Head(pItems)), Tail(pItems))

RECURSIVE PrependAll(_, _)
\* the same loop inserting at the front
PrependAll(pList, pItems) ==
    IF pItems = <<>> THEN pList
    ELSE PrependAll(<<Head(pItems)>> \o pList, Tail(pItems))

\* variant: each box's vertex list is put at the front of the result list
getCropsAndBoundingBoxesReversed(pSerialImageMsg, pSerialCameraInfo, pSerialBoundingBoxList) ==
    LET imageMsg == from_python_Image(pSerialImageMsg)
        camInfo == from_python_CameraInfo(pSerialCameraInfo)
        boundingBoxList == from_python_BoundingBoxList(pSerialBoundingBoxList)
        mImgBoundingBox == ImageBoundingBox(imageMsg, camInfo, boundingBoxList)
        serialImageList == to_python_ImageList(mImgBoundingBox.cropped_image_list)
        boxVerticesVect == mImgBoundingBox.box_vertices_vector
        boostVertices(boxVertices) ==
            AppendAll(<<>>, [j \in DOMAIN boxVertices |->
                                <<boxVertices[j].x, boxVertices[j].y>>])
        boxVerticesList ==
            PrependAll(<<>>, [k \in DOMAIN boxVerticesVect |->
                                boostVertices(boxVerticesVect[k])])
    IN  [status |-> "ok", ret |-> <<serialImageList, boxVerticesList>>]

\* getCropsAndBoundingBoxes(serialImageMsg, serialCameraInfo, serialBoundingBoxList)
getCropsAndBoundingBoxes(pSerialImageMsg, pSerialCameraInfo, pSerialBoundingBoxList) ==
    LET imageMsg == from_python_Image(pSerialImageMsg)
        camInfo == from_python_CameraInfo(pSerialCameraInfo)
        boundingBoxList == from_python_BoundingBoxList(pSerialBoundingBoxList)
        mImgBoundingBox == ImageBoundingBox(imageMsg, camInfo, boundingBoxList)
        serialImageList == to_python_ImageList(mImgBoundingBox.cropped_image_list)
        boxVerticesVect == mImgBoundingBox.box_vertices_vector
        boostVertices(boxVertices) ==
            AppendAll(<<>>, [j \in DOMAIN boxVertices |->
                                <<boxVertices[j].x, boxVertices[j].y>>])
        boxVerticesList ==
            AppendAll(<<>>, [k \in DOMAIN boxVerticesVect |->
                                boostVertices(boxVerticesVect[k])])
    IN  [status |-> "ok", ret |-> <<serialImageList, boxVerticesList>>]

---------------------------------------------------------------------------
(* Inputs of the 3D-box path *)

\* the image message holding an image buffer's pixels
ImageMsgOf(nd) ==
    [height |-> nd.shape[1], width |-> nd.shape[2], encoding |-> "bgr8", data |-> nd.data]

\* the face of a 3D box, 2 wide and 2 high, at depth z
MkBox3D(x0, y0, z) ==
    <<<<x0, y0, z>>, <<x0 + 2, y0, z>>, <<x0 + 2, y0 + 2, z>>, <<x0, y0 + 2, z>>>>

\* faces in front of the camera: out of view, across the image border, in view
Boxes3D ==
    {MkBox3D(-8, -8, 1), MkBox3D(-1, 0, 1), MkBox3D(0, -3, 2), MkBox3D(0, 0, 2),
     MkBox3D(9, 1, 2)}

CameraInfos == {<<"CameraInfo", 1, 1, c, c>> : c \in {0, 1}}

---------------------------------------------------------------------------
(* Actions *)

\* the extension module has been imported and no call is in progress
Init ==
    /\ op = "idle"
    /\ args = None
    /\ status = "ok"
    /\ ret = None
    /\ caller = None

\* bp::class_<BoundingBox2DWrapper>(..., bp::init<std::string, bp::tuple&, bp::tuple&>())
NewBox2D ==
    /\ op = "idle"
    /\ \E l \in Labels, c \in ColorTuples, g \in GeomTuples :
        LET r == BoundingBox2DWrapper(l, c, g) IN
        /\ op' = "BoundingBox2DWrapper"
        /\ args' = [label |-> l, color |-> c, box |-> g]
        /\ status' = r.status
        /\ ret' = r.box
        /\ caller' = None

\* bp::def("_draw_labeled_boxes", drawLabeledBoxesWrapper)
DrawLabeledBoxes ==
    /\ op = "idle"
    /\ \E img \in Images, bl \in SeqsUpTo(DrawBoxes, MaxBoxes), t \in Thicknesses :
        LET r == drawLabeledBoxesWrapper(img, bl, t, 1) IN
        /\ op' = "drawLabeledBoxes"
        /\ args' = [image |-> img, boxes |-> bl, thickness |-> t]
        /\ status' = r.status
        /\ ret' = r.ret
        /\ caller' = [image |-> r.image, boxes |-> r.boxes]

\* bp::def("_fit_box_to_image", fitBoxToImageWrapper)
FitBoxToImage ==
    /\ op = "idle"
    /\ \E in \in FitInputs :
        LET r == fitBoxToImageWrapper(in[1], in[2], in[3]) IN
        /\ op' = "fitToImage"
        /\ args' = [size |-> in[1], box |-> in[2], offset |-> in[3]]
        /\ status' = r.status
        /\ ret' = r.ret
        /\ caller' = [box |-> r.box]

\* bp::def("_crop_image", cropImageWrapper)
CropImage ==
    /\ op = "idle"
    /\ \E in \in CropInputs :
        LET r == cropImageWrapper(in[1], in[2], in[3]) IN
        /\ op' = "cropImage"
        /\ args' = [image |-> in[1], box |-> in[2], offset |-> in[3]]
        /\ status' = r.status
        /\ ret' = r.ret
        /\ caller' = [image |-> r.image, box |-> r.box]

\* bp::def("_cloud_msg_to_cv_image", cloudMsgToCvImageWrapper)
CloudMsgToCvImage ==
    /\ op = "idle"
    /\ \E c \in Clouds \cup BareClouds :
        LET r == cloudMsgToCvImageWrapper(to_python_Cloud(c)) IN
        /\ op' = "cloudToImage"
        /\ args' = [cloud |-> to_python_Cloud(c)]
        /\ status' = r.status
        /\ ret' = r.ret
        /\ caller' = None

\* bp::def("_cloud_msg_to_image_msg", cloudMsgToImageMsgWrapper)
CloudMsgToImageMsg ==
    /\ op = "idle"
    /\ \E c \in Clouds \cup BareClouds :
        LET r == cloudMsgToImageMsgWrapper(to_python_Cloud(c)) IN
        /\ op' = "cloudToImageMsg"
        /\ args' = [cloud |-> to_python_Cloud(c)]
        /\ status' = r.status
        /\ ret' = r.ret
        /\ caller' = None

\* bp::def("_crop_organized_cloud_msg", cropOrganizedCloudMsgWrapper)
CropOrganizedCloudMsg ==
    /\ op = "idle"
    /\ \E c \in CropClouds, b \in Boxes :
        LET r == cropOrganizedCloudMsgWrapper(to_python_Cloud(c), b) IN
        /\ op' = "cropOrganizedCloud"
        /\ args' = [cloud |-> to_python_Cloud(c), box |-> b]
        /\ status' = r.status
        /\ ret' = r.ret
        /\ caller' = [box |-> r.box]

\* bp::def("_crop_cloud_to_xyz", cropCloudMsgToXYZWrapper)
CropCloudToXYZ ==
    /\ op = "idle"
    /\ \E c \in CropClouds, b \in Boxes :
        LET r == cropCloudMsgToXYZWrapper(to_python_Cloud(c), b) IN
        /\ op' = "cropCloudToXYZ"
        /\ args' = [cloud |-> to_python_Cloud(c), box |-> b]
        /\ status' = r.status
        /\ ret' = r.ret
        /\ caller' = [box |-> r.box]

\* bp::def("_transform_point_cloud", transformPointCloudWrapper)
TransformPointCloud ==
    /\ op = "idle"
    /\ \E c \in Clouds, m \in Matrices :
        LET r == transformPointCloudWrapper(to_python_Cloud(c), m) IN
        /\ op' = "transform"
        /\ args' = [cloud |-> to_python_Cloud(c), matrix |-> m]
        /\ status' = r.status
        /\ ret' = r.ret
        /\ caller' = None

\* bp::def("get_crops_and_bounding_boxes_wrapper", getCropsAndBoundingBoxes)
GetCropsAndBoundingBoxes ==
    /\ op = "idle"
    /\ \E img \in Images, ci \in CameraInfos, bl \in SeqsUpTo(Boxes3D, MaxBoxes) :
        LET serialImage == to_python_Image(ImageMsgOf(img))
            serialBoxes == <<"BoundingBoxList", Len(bl), bl>>
            r == getCropsAndBoundingBoxes(serialImage, ci, serialBoxes)
        IN
        /\ op' = "extractCropsAndBoxes"
        /\ args' = [image |-> serialImage, cameraInfo |-> ci, boxes |-> serialBoxes]
        /\ status' = r.status
        /\ ret' = r.ret
        /\ caller' = None

\* the caller has looked at the outcome; the calls are synchronous and
\* single-threaded, so the next call starts only after this one is over
Return ==
    /\ op # "idle"
    /\ op' = "idle"
    /\ args' = None
    /\ status' = "ok"
    /\ ret' = None
    /\ caller' = None

Next ==
    \/ NewBox2D
    \/ DrawLabeledBoxes
    \/ FitBoxToImage
    \/ CropImage
    \/ CloudMsgToCvImage
    \/ CloudMsgToImageMsg
    \/ CropOrganizedCloudMsg
    \/ CropCloudToXYZ
    \/ TransformPointCloud
    \/ GetCropsAndBoundingBoxes
    \/ Return

Spec == Init /\ [][Next]_vars

---------------------------------------------------------------------------
(* Properties *)

\* the image size a fitToImage call was given, as the integers the wrapper reads
SizeGiven == Len(args.size) = 2 /\ AllExtractable(args.size, 2)
ImgW == StaticCastInt(args.size[1].h)
ImgH == StaticCastInt(args.size[2].h)

\* v/2 cut toward zero is n
TruncatesTo(v, n) ==
    IF v.h >= 0 THEN 2 * n <= v.h /\ v.h < 2 * n + 2
    ELSE 2 * n >= v.h /\ v.h > 2 * n - 2

\* a colour channel value outside [0,255]
OutOfRange(v) == v.kind = "num" /\ (v.h < 0 \/ v.h > 510)

\* C1: transform(cloud, matrix) with a matrix whose row count or column
\* count is not 4 fails with InvalidArgument, for every cloud, and returns
\* no transformed cloud.
C1_NonSquareIsInvalidArgument ==
    (op = "transform" /\ (args.matrix.shape[1] # 4 \/ args.matrix.shape[2] # 4))
        => (status = "InvalidArgument" /\ ret = None)

\* C2 as stated, for tuples of numbers: construction fails with InvalidArgument whenever the colour
\* tuple has not exactly 3 elements, the geometry tuple has not exactly 4, or
\* a colour channel lies outside [0,255]; on success x, y, width, height are
\* the 4 geometry values in order.
C2_AsStated ==
    (/\ op = "BoundingBox2DWrapper"
     /\ AllExtractable(args.color, Len(args.color))
     /\ AllExtractable(args.box, Len(args.box))) =>
        /\ (\/ Len(args.color) # 3
            \/ Len(args.box) # 4
            \/ \E i \in DOMAIN args.color : OutOfRange(args.color[i]))
              => status = "InvalidArgument"
        /\ status = "ok" =>
              /\ 2 * ret.mX = args.box[1].h
              /\ 2 * ret.mY = args.box[2].h
              /\ 2 * ret.mWidth = args.box[3].h
              /\ 2 * ret.mHeight = args.box[4].h

\* C2 amended: construction fails with InvalidArgument whenever the colour
\* tuple has not exactly 3 elements, and also whenever the colour tuple is 3
\* numbers and the geometry tuple has not exactly 4 elements; 3 numeric colour
\* channels and 4 numeric geometry values always construct a box, whatever
\* the range of the channels; on success x, y, width, height are the 4
\* geometry values in order, each cut toward zero to an integer.
C2_ArityCheckedRangeNot ==
    op = "BoundingBox2DWrapper" =>
        /\ Len(args.color) # 3 => status = "InvalidArgument"
        /\ (Len(args.color) = 3 /\ AllExtractable(args.color, 3) /\ Len(args.box) # 4)
              => status = "InvalidArgument"
        /\ (/\ Len(args.color) = 3 /\ AllExtractable(args.color, 3)
            /\ Len(args.box) = 4 /\ AllExtractable(args.box, 4))
              => status = "ok"
        /\ status # "ok" => ret = None
        /\ status = "ok" =>
              /\ Len(args.color) = 3 /\ Len(args.box) = 4
              /\ TruncatesTo(args.box[1], ret.mX)
              /\ TruncatesTo(args.box[2], ret.mY)
              /\ TruncatesTo(args.box[3], ret.mWidth)
              /\ TruncatesTo(args.box[4], ret.mHeight)
              /\ ret.mLabel = args.label

\* a box built from a colour with a channel of 256 and fractional geometry
C2_Witness ==
    /\ op = "BoundingBox2DWrapper" /\ status = "ok"
    /\ \E i \in 1..3 : OutOfRange(args.color[i])
    /\ 2 * ret.mX # args.box[1].h

\* C3: for every image size, box and offset, fitToImage either fails with
\* InvalidArgument, exactly when the resulting width or height would be <= 0,
\* or returns a box with x >= 0, y >= 0, width >= 1, height >= 1,
\* x + width <= image width and y + height <= image height.
C3_FitStaysInsideImage ==
    (op = "fitToImage" /\ SizeGiven) =>
        LET b == args.box
            o == args.offset
            rw == Min(b.mX + b.mWidth + o, ImgW) - Max(b.mX - o, 0)
            rh == Min(b.mY + b.mHeight + o, ImgH) - Max(b.mY - o, 0)
        IN  /\ status \in {"ok", "InvalidArgument"}
            /\ status = "InvalidArgument" <=> (rw <= 0 \/ rh <= 0)
            /\ status = "InvalidArgument" => ret = None
            /\ status = "ok" =>
                  /\ ret.mX >= 0 /\ ret.mY >= 0
                  /\ ret.mWidth >= 1 /\ ret.mHeight >= 1
                  /\ ret.mX + ret.mWidth <= ImgW
                  /\ ret.mY + ret.mHeight <= ImgH

\* a box reaching past the right and bottom edges, grown by an offset, fitted
C3_Witness ==
    /\ op = "fitToImage" /\ SizeGiven /\ status = "ok"
    /\ args.offset > 0
    /\ args.box.mX + args.box.mWidth > ImgW
    /\ args.box.mY + args.box.mHeight > ImgH
    /\ args.box.mX < 0

\* C4: for every image size (W,H) and every box with w,h > 0, x >= 0, y >= 0,
\* x+w <= W and y+h <= H (boxes touching the right or bottom edge included),
\* fitToImage with offset 0 returns a box with the identical x, y, width and
\* height.
C4_FitKeepsBoxInside ==
    (/\ op = "fitToImage" /\ SizeGiven /\ args.offset = 0
     /\ args.box.mWidth > 0 /\ args.box.mHeight > 0
     /\ args.box.mX >= 0 /\ args.box.mY >= 0
     /\ args.box.mX + args.box.mWidth <= ImgW
     /\ args.box.mY + args.box.mHeight <= ImgH)
        => (/\ status = "ok"
            /\ ret.mX = args.box.mX /\ ret.mY = args.box.mY
            /\ ret.mWidth = args.box.mWidth /\ ret.mHeight = args.box.mHeight)

\* a box touching the right and the bottom edge of a non-square image
C4_Witness ==
    /\ op = "fitToImage" /\ SizeGiven /\ args.offset = 0 /\ status = "ok"
    /\ args.box.mX > 0 /\ args.box.mY > 0
    /\ args.box.mX + args.box.mWidth = ImgW
    /\ args.box.mY + args.box.mHeight = ImgH
    /\ ImgW # ImgH

\* C5: fitToImage with offset 0 on a box that overflows the image returns the
\* intersection of the box with the image rectangle; with the origin inside the
\* image the origin is kept and width and height are cut to W - x and H - y.
\* The box (90,90,20,20) in a 100x100 image becomes (90,90,10,10), and
\* cropImage of that box yields a 10x10 buffer.
C5_OverflowCutToIntersection ==
    /\ (/\ op = "fitToImage" /\ SizeGiven /\ args.offset = 0
        /\ Min(args.box.mX + args.box.mWidth, ImgW) > Max(args.box.mX, 0)
        /\ Min(args.box.mY + args.box.mHeight, ImgH) > Max(args.box.mY, 0))
          => /\ status = "ok"
             /\ ret.mX = Max(args.box.mX, 0)
             /\ ret.mY = Max(args.box.mY, 0)
             /\ ret.mX + ret.mWidth = Min(args.box.mX + args.box.mWidth, ImgW)
             /\ ret.mY + ret.mHeight = Min(args.box.mY + args.box.mHeight, ImgH)
             /\ (args.box.mX >= 0 /\ args.box.mX + args.box.mWidth > ImgW)
                  => (ret.mX = args.box.mX /\ ret.mWidth = ImgW - args.box.mX)
             /\ (args.box.mY >= 0 /\ args.box.mY + args.box.mHeight > ImgH)
                  => (ret.mY = args.box.mY /\ ret.mHeight = ImgH - args.box.mY)
    /\ (op = "fitToImage" /\ args.size = ExampleSize /\ args.box = ExampleBox
            /\ args.offset = 0)
          => (status = "ok" /\ ret = ExampleFitted)
    /\ (op = "cropImage" /\ args.image = ExampleImage /\ args.offset = 0
            /\ args.box \in {ExampleBox, ExampleFitted})
          => (status = "ok" /\ ret.shape = <<10, 10, 3>> /\ Len(ret.data) = 100)

\* the example box fitted to the 100x100 image
C5_Witness ==
    /\ op = "fitToImage" /\ args.size = ExampleSize /\ args.box = ExampleBox
    /\ args.offset = 0 /\ status = "ok"
    /\ ret.mWidth = 10 /\ ret.mHeight = 10


\* the box of the call lies inside a grid of w columns and h rows
BoxInside(b, w, h) ==
    /\ b.mWidth > 0 /\ b.mHeight > 0 /\ b.mX >= 0 /\ b.mY >= 0
    /\ b.mX + b.mWidth <= w /\ b.mY + b.mHeight <= h

\* C6: for every image and every box lying inside it, cropImage(image, box, 0)
\* returns a new buffer of exactly box.height rows and box.width columns whose
\* pixel (r,c) is the input pixel (box.y + r, box.x + c); cropImage fails with
\* InvalidArgument when box and offset reduce the region to zero area.
C6_CropCopiesRegion ==
    op = "cropImage" =>
        LET b == args.box
            o == args.offset
            W == args.image.shape[2]
            H == args.image.shape[1]
            rw == Min(b.mX + b.mWidth + o, W) - Max(b.mX - o, 0)
            rh == Min(b.mY + b.mHeight + o, H) - Max(b.mY - o, 0)
        IN  /\ (o = 0 /\ BoxInside(b, W, H)) =>
                  /\ status = "ok"
                  /\ ret.shape = <<b.mHeight, b.mWidth, 3>>
                  /\ Len(ret.data) = b.mHeight * b.mWidth
                  /\ \A r \in 0..(b.mHeight - 1), c \in 0..(b.mWidth - 1) :
                        ret.data[r * b.mWidth + c + 1]
                            = args.image.data[(b.mY + r) * W + b.mX + c + 1]
            /\ (rw <= 0 \/ rh <= 0) => (status = "InvalidArgument" /\ ret = None)

\* a crop of at least 2x2 pixels away from the image's origin
C6_Witness ==
    /\ op = "cropImage" /\ status = "ok" /\ args.offset = 0
    /\ BoxInside(args.box, args.image.shape[2], args.image.shape[1])
    /\ args.box.mX > 0 /\ args.box.mY > 0
    /\ args.box.mWidth > 1 /\ args.box.mHeight > 1
    /\ args.box.mWidth < args.image.shape[2]

C8_UnorganizedCloudRejected ==
    (/\ op \in {"cropOrganizedCloud", "cropCloudToXYZ", "cloudToImage", "cloudToImageMsg"}
     /\ args.cloud[2] <= 1)
        => (status = "InvalidArgument" /\ ret = None)

\* a cloud of one row with a colour channel handed to the message conversion
C8_Witness ==
    /\ op = "cloudToImageMsg" /\ args.cloud[2] = 1 /\ args.cloud[3] > 1
    /\ "rgb" \in args.cloud[4]
    /\ status = "InvalidArgument"

\* the colour pixel i of an h x w image shows after the boxes were drawn:
\* that of the last box painting it, the input's pixel when none does
PixelAfter(img, boxes, t, i) ==
    LET p == <<(i - 1) \div img.shape[2], (i - 1) % img.shape[2]>>
        hits == {k \in 1..Len(boxes) : Painted(boxes[k], t, p)}
    IN  IF hits = {} THEN img.data[i]
        ELSE boxes[CHOOSE k \in hits : \A j \in hits : j <= k].mColor

ProjectsOutside(b, cam, w, h) ==
    LET us == {(cam[2] * b[j][1]) \div b[j][3] + cam[4] : j \in DOMAIN b}
        vs == {(cam[3] * b[j][2]) \div b[j][3] + cam[5] : j \in DOMAIN b}
    IN  \/ \A u \in us : u < 0
        \/ \A u \in us : u >= w
        \/ \A v \in vs : v < 0
        \/ \A v \in vs : v >= h

\* C10: extractCropsAndBoxes returns a list of cropped images and a list of
\* per-box 2D vertex arrays, both as long as the input box list, the k-th
\* crop and the k-th vertex array belonging to the k-th box; a box projecting
\* entirely outside the image contributes an empty entry at its position
\* instead of being skipped or raising an error.
C10_CropsAndVerticesFollowBoxes ==
    op = "extractCropsAndBoxes" =>
        LET boxes == args.boxes[3]
            cam == args.cameraInfo
            crops == ret[1][3]
            verts == ret[2]
        IN  /\ status = "ok"
            /\ ret[1][2] = Len(boxes)
            /\ Len(crops) = Len(boxes)
            /\ Len(verts) = Len(boxes)
            /\ \A k \in 1..Len(boxes) :
                  LET alone == getCropsAndBoundingBoxes(
                                   args.image, cam, <<"BoundingBoxList", 1, <<boxes[k]>>>>).ret
                  IN  /\ Len(verts[k]) = Len(boxes[k])
                      /\ \A j \in 1..Len(boxes[k]) :
                            verts[k][j] =
                                <<(cam[2] * boxes[k][j][1]) \div boxes[k][j][3] + cam[4],
                                  (cam[3] * boxes[k][j][2]) \div boxes[k][j][3] + cam[5]>>
                      /\ crops[k] = alone[1][3][1]
                      /\ ProjectsOutside(boxes[k], cam, args.image[3], args.image[2])
                            <=> (crops[k].width = 0 /\ crops[k].height = 0
                                    /\ crops[k].data = <<>>)

\* two boxes, the first out of view and the second in view: an empty crop
\* first, a crop with pixels second
C10_Witness ==
    /\ op = "extractCropsAndBoxes" /\ status = "ok"
    /\ Len(args.boxes[3]) = 2
    /\ ProjectsOutside(args.boxes[3][1], args.cameraInfo, args.image[3], args.image[2])
    /\ ret[1][3][1].data = <<>>
    /\ ret[1][3][2].data # <<>>
    /\ ret[2][1] # ret[2][2]

====
